---- MODULE Spec2Model ----
(***************************************************************************)
(* Model of the backend request pipeline:                                  *)
(*   - utils/filtersAndPagination/getFiltersAndPaginationFromBody.ts       *)
(*   - controllers/tag.controller.ts                                       *)
(***************************************************************************)
EXTENDS Integers, Sequences, FiniteSets, TLC

(***************************************************************************)
(* Bounds of the model.                                                    *)
(***************************************************************************)
MaxStrLen == 2
MaxNum == 3
MaxTotal == 4
MaxRequests == 3
MaxCalls == 3
MaxSubmits == 2
MaxMessageLen == 3
MaxSends == 2

(***************************************************************************)
(* Program constants.                                                      *)
(***************************************************************************)
DEFAULT_PAGE_SIZE == 1000
DEFAULT_PAGE == 1

VARIABLES
  pgpc,           \* position of the caller of the extractor
  query,          \* req.query of the request handed to the extractor
  reqBody,        \* req.body of the request handed to the extractor
  result,         \* what the extractor returned
  totalItems,     \* the count handed to getNumberOfPages
  numberOfPages,  \* what getNumberOfPages returned
  tags,           \* the stored tags, by id
  pc,             \* per request: the await the handler is suspended at
  req,            \* per request: res.locals, req.params, req.body, req.query
  trace,          \* per request: what the handler did, in order
  local,          \* per request: the tags bound by the handler's await
  before,         \* per request: the stored tags when the request arrived
  served,         \* number of requests received
  orgs,           \* the stored organizations, by id
  opc,            \* per service call: the await the call is suspended at
  oreq,           \* per service call: the operation and its arguments
  ores,           \* per service call: what it returned or threw
  olog,           \* per service call: its database operations, in order
  allocated,      \* number of organization ids given out by the database
  lastWriter,     \* the service call of the last write to the database
  ocalls,         \* number of service calls made
  planData,       \* session.organization.plan seen by the payment step
  requestedPlan,  \* the plan prop of the payment step
  stripe,         \* useStripe() has a value
  elements,       \* useElements() has a value
  mounted,        \* elements.getElement(PaymentElement) has a value
  isPaymentElementReady,
  isLoading,
  isPaymentSuccessful,  \* the state of the payment step
  route,          \* the step shown: "payment", or "next" after goNextStep
  payment,        \* the promise of confirmPayment
  paylog,         \* the calls made by onSubmit, in order
  submits,        \* number of submits of the payment form
  chatMessage,    \* message, the text of the chat input
  messages,       \* the texts of the chat messages, in order
  chatEvent       \* the last event of the chat interface

pgvars == <<pgpc, query, reqBody, result, totalItems, numberOfPages>>
tagvars == <<tags, pc, req, trace, local, before, served>>
orgvars == <<orgs, opc, oreq, ores, olog, allocated, lastWriter, ocalls>>
payvars == <<planData, requestedPlan, stripe, elements, mounted,
             isPaymentElementReady, isLoading, isPaymentSuccessful, route,
             payment, paylog, submits>>
chatvars == <<chatMessage, messages, chatEvent>>
vars == <<pgpc, query, reqBody, result, totalItems, numberOfPages,
          tags, pc, req, trace, local, before, served,
          orgs, opc, oreq, ores, olog, allocated, lastWriter, ocalls,
          planData, requestedPlan, stripe, elements, mounted,
          isPaymentElementReady, isLoading, isPaymentSuccessful, route,
          payment, paylog, submits,
          chatMessage, messages, chatEvent>>

(***************************************************************************)
(* JavaScript numbers.  page, pageSize and skip are integers or NaN;       *)
(* Math.ceil(totalItems / pageSize) may also be +Infinity or -Infinity.    *)
(* Zero carries its sign (parseInt("-0", 10) is -0).                       *)
(***************************************************************************)
Num(n) == [k |-> "num", v |-> n, nz |-> FALSE]
NegZero == [k |-> "num", v |-> 0, nz |-> TRUE]
NaN == [k |-> "nan", v |-> 0, nz |-> FALSE]
Infinity(sgn) == [k |-> "inf", v |-> sgn, nz |-> FALSE]

IsNegative(x) == x.v < 0 \/ x.nz
Zero(neg) == IF neg THEN NegZero ELSE Num(0)
Abs(n) == IF n < 0 THEN 0 - n ELSE n

\* x - 1 for x an integer or NaN
JsMinusOne(x) == IF x.k = "nan" THEN NaN ELSE Num(x.v - 1)

\* x * y for x, y integers or NaN
JsTimes(x, y) ==
  IF x.k = "nan" \/ y.k = "nan" THEN NaN
  ELSE IF x.v * y.v = 0 THEN Zero(IsNegative(x) # IsNegative(y))
  ELSE Num(x.v * y.v)

\* Math.ceil(t / y) for t an integer and y an integer or NaN
JsCeilDiv(t, y) ==
  IF y.k = "nan" THEN NaN
  ELSE IF y.v = 0
    THEN IF t = 0 THEN NaN
         ELSE Infinity(IF (t < 0) # y.nz THEN 0 - 1 ELSE 1)
  ELSE LET neg == (t < 0) # (y.v < 0)
           a == Abs(t)
           b == Abs(y.v)
       IN IF t = 0 THEN Zero(y.v < 0)
          ELSE IF ~neg
            THEN Num(IF a % b = 0 THEN a \div b ELSE (a \div b) + 1)
          ELSE IF a \div b = 0 THEN NegZero
          ELSE Num(0 - (a \div b))

(***************************************************************************)
(* JavaScript values carried by a query object.                            *)
(***************************************************************************)
Chars == {"0", "1", "3", "-", " ", "a"}
Digits == {"0", "1", "2", "3", "4", "5", "6", "7", "8", "9"}
DigitValue ==
  "0" :> 0 @@ "1" :> 1 @@ "2" :> 2 @@ "3" :> 3 @@ "4" :> 4 @@
  "5" :> 5 @@ "6" :> 6 @@ "7" :> 7 @@ "8" :> 8 @@ "9" :> 9

JsString(s) == [t |-> "string", s |-> s, n |-> 0]
JsNumber(n) == [t |-> "number", s |-> <<>>, n |-> n]
JsArray(s) == [t |-> "object", s |-> s, n |-> 0]
JsUndefined == [t |-> "undefined", s |-> <<>>, n |-> 0]

typeof(x) == x.t

Strings == UNION {[1..n -> Chars] : n \in 0..MaxStrLen}
Numbers == ((0 - 1)..MaxNum) \cup {10}

\* the value of a key of an object, undefined when the key is absent
Get(obj, key) == IF key \in DOMAIN obj THEN obj[key] ELSE JsUndefined

(***************************************************************************)
(* parseInt(string, 10): leading white space is skipped, an optional sign  *)
(* is read, then the longest prefix of decimal digits; NaN when there is   *)
(* no digit.                                                               *)
(***************************************************************************)
RECURSIVE SkipWhiteSpace(_)
SkipWhiteSpace(s) ==
  IF s # <<>> /\ Head(s) = " " THEN SkipWhiteSpace(Tail(s)) ELSE s

RECURSIVE DigitPrefix(_)
DigitPrefix(s) ==
  IF s # <<>> /\ Head(s) \in Digits
    THEN <<Head(s)>> \o DigitPrefix(Tail(s))
    ELSE <<>>

RECURSIVE DigitsValue(_, _)
DigitsValue(s, acc) ==
  IF s = <<>> THEN acc
  ELSE DigitsValue(Tail(s), acc * 10 + DigitValue[Head(s)])

parseInt(s) ==
  LET t == SkipWhiteSpace(s)
      signed == t # <<>> /\ Head(t) \in {"-", "+"}
      neg == t # <<>> /\ Head(t) = "-"
      d == DigitPrefix(IF signed THEN Tail(t) ELSE t)
      v == DigitsValue(d, 0)
  IN IF d = <<>> THEN NaN
     ELSE IF neg THEN (IF v = 0 THEN NegZero ELSE Num(0 - v))
     ELSE Num(v)

(***************************************************************************)
(* getFiltersAndPaginationFromBody                                         *)
(***************************************************************************)
PaginationKeys == {"page", "pageSize"}

\* the rest pattern keeping the pagination keys
filtersRequest_keepsPagination(q) == q

\* const { pageSize, page, ...filtersRequest } = query
filtersRequest(q) == [key \in (DOMAIN q) \ PaginationKeys |-> q[key]]

\* the typeof branches without the one for strings
FromRequest_numbersOnly(value, default) ==
  IF typeof(value) = "number" THEN Num(value.n) ELSE default

\* the typeof branches without the initial value of the let
FromRequest_noDefault(value, default) ==
  IF typeof(value) = "string" THEN parseInt(value.s)
  ELSE IF typeof(value) = "number" THEN Num(value.n)
  ELSE NaN

\* the two typeof branches that read pageSize or page from the query
FromRequest(value, default) ==
  IF typeof(value) = "string" THEN parseInt(value.s)
  ELSE IF typeof(value) = "number" THEN Num(value.n)
  ELSE default

\* Math.floor in the place of Math.ceil
getNumberOfPages_floor(pageSize, total) ==
  IF pageSize.k = "num" /\ pageSize.v > 0
    THEN Num(total \div pageSize.v)
    ELSE JsCeilDiv(total, pageSize)

\* const getNumberOfPages = (totalItems) => Math.ceil(totalItems / pageSize)
getNumberOfPages(pageSize, total) == JsCeilDiv(total, pageSize)

\* (page - 1) * (pageSize - 1) in the place of (page - 1) * pageSize
Skip_shortWindows(page, pageSize) ==
  JsTimes(JsMinusOne(page), JsMinusOne(pageSize))

\* page * pageSize in the place of (page - 1) * pageSize
Skip_pageNotDecremented(page, pageSize) == JsTimes(page, pageSize)

\* const skip = (page - 1) * pageSize
Skip(page, pageSize) == JsTimes(JsMinusOne(page), pageSize)

getFiltersAndPaginationFromBody(q) ==
  LET isObject == q.t = "object"
      pageSize == IF isObject
                    THEN FromRequest(Get(q.obj, "pageSize"), Num(DEFAULT_PAGE_SIZE))
                    ELSE Num(DEFAULT_PAGE_SIZE)
      page == IF isObject
                THEN FromRequest(Get(q.obj, "page"), Num(DEFAULT_PAGE))
                ELSE Num(DEFAULT_PAGE)
      filters == IF isObject /\ DOMAIN filtersRequest(q.obj) # {}
                   THEN filtersRequest(q.obj)
                   ELSE <<>>
      skip == Skip(page, pageSize)
  IN [filters |-> filters, skip |-> skip, page |-> page, pageSize |-> pageSize]

(***************************************************************************)
(* The requests the extractor is applied to.                               *)
(***************************************************************************)
PageValues ==
  {JsUndefined} \cup {JsString(s) : s \in Strings}
    \cup {JsNumber(n) : n \in Numbers} \cup {JsArray(<<"1", "3">>)}

FilterObjects ==
  {<<>>, [name |-> JsString(<<"a">>)],
   [name |-> JsString(<<"a">>), ids |-> JsArray(<<"1", "3">>)]}

\* a query object: its keys are the keys whose value is not undefined
QueryObject(page, pageSize, filters) ==
  LET keys == {key \in PaginationKeys :
                 (IF key = "page" THEN page ELSE pageSize) # JsUndefined}
               \cup DOMAIN filters
  IN [key \in keys |->
        IF key = "page" THEN page
        ELSE IF key = "pageSize" THEN pageSize
        ELSE filters[key]]

NoQuery == [t |-> "undefined", obj |-> <<>>]
Queries ==
  {NoQuery} \cup
  {[t |-> "object", obj |-> QueryObject(p, ps, f)] :
     p \in PageValues, ps \in PageValues, f \in FilterObjects}

\* req.body of the requests: absent, or an object of the same shape
RequestBodies ==
  {NoQuery,
   [t |-> "object",
    obj |-> [page |-> JsString(<<"3">>), name |-> JsString(<<"a">>)]]}

Request(q, b) == [query |-> q, body |-> b]

\* const query = req.query
QueryOf(request) == request.query

NoResult ==
  [filters |-> <<>>, skip |-> Num(0), page |-> Num(0), pageSize |-> Num(0)]

(***************************************************************************)
(* Tags, sessions and request bodies.                                      *)
(***************************************************************************)
UNDEF == "undefined"

Users == {"u1"}
Organizations == {"o1", "o2"}
Projects == {"p1"}
TagIds == {"t1", "t2"}
TagIdOrder == <<"t1", "t2">>
AllSlots == {1, 2}
Slots == {1}

TagFields ==
  {"id", "organizationId", "projectId", "creatorId",
   "name", "key", "description", "instructions"}

\* req.body: absent, or an object with some keys
NoBody == [present |-> FALSE, obj |-> <<>>]
Body(obj) == [present |-> TRUE, obj |-> obj]
Bodies ==
  {NoBody, Body(<<>>),
   Body([name |-> "a"]),
   Body([name |-> "b", key |-> "b"]),
   Body([description |-> "b", instructions |-> "b"]),
   Body([organizationId |-> "o1"]),
   Body([name |-> "a", organizationId |-> "o2"]),
   Body([key |-> "a", projectId |-> "p2", creatorId |-> "u2"])}

\* req.query of getTags
TagQueries ==
  {NoQuery,
   [t |-> "object", obj |-> [name |-> JsString(<<"a">>)]],
   [t |-> "object",
    obj |-> [page |-> JsString(<<"2">>), pageSize |-> JsString(<<"1">>)]]}

Field(obj, key) == IF key \in DOMAIN obj THEN obj[key] ELSE UNDEF

NoRequest ==
  [kind |-> "none", user |-> UNDEF, organization |-> UNDEF,
   project |-> UNDEF, tagId |-> UNDEF, body |-> NoBody, query |-> NoQuery]

(***************************************************************************)
(* What a handler does, in order: the responses it sends, the permission   *)
(* checks it evaluates, the tagService calls it makes and their outcomes.  *)
(***************************************************************************)
Generic(code) ==
  [ev |-> "res", name |-> "handleGenericErrorResponse", code |-> code,
   target |-> <<>>, ok |-> FALSE]
App(error) ==
  [ev |-> "res", name |-> "handleAppErrorResponse", code |-> error,
   target |-> <<>>, ok |-> FALSE]
Json(message, data) ==
  [ev |-> "res", name |-> "json", code |-> message, target |-> data,
   ok |-> TRUE]
Perm(action, targetTags, allowed) ==
  [ev |-> "perm", name |-> action, code |-> "", target |-> targetTags,
   ok |-> allowed]
Call(name, id, arg) ==
  [ev |-> "call", name |-> name, code |-> id, target |-> arg, ok |-> TRUE]
Return(name, value) ==
  [ev |-> "return", name |-> name, code |-> "", target |-> value, ok |-> TRUE]
Throw(name, error) ==
  [ev |-> "throw", name |-> name, code |-> error, target |-> <<>>,
   ok |-> FALSE]

(***************************************************************************)
(* The permission gate.  hasPermission(roles, action)(context) returns a   *)
(* boolean; nothing more is known of it, so both outcomes are possible.    *)
(***************************************************************************)
hasPermission(action, targetTags) == BOOLEAN

(***************************************************************************)
(* The tag service: a thin wrapper over the database queries.  Every call  *)
(* may fail in the database; getTagById throws when no tag has the id.     *)
(***************************************************************************)
DatabaseErrors == {"DATABASE_ERROR"}

\* errors getTagById(id) may throw
getTagByIdErrors(id) ==
  DatabaseErrors \cup (IF id \in DOMAIN tags THEN {} ELSE {"TAG_NOT_FOUND"})

\* errors updateTagById(id, tag) may throw
updateTagByIdErrors(id) ==
  DatabaseErrors \cup (IF id \in DOMAIN tags THEN {} ELSE {"TAG_UPDATE_FAILED"})

\* does a stored tag match a filter object
Matches(tag, filters) ==
  \A key \in DOMAIN filters :
    key \in TagFields /\ filters[key].s = <<tag[key]>>

\* the documents of find(filters).skip(skip).limit(limit), in id order
findTags(filters, skip, limit) ==
  LET all == SelectSeq(TagIdOrder,
               LAMBDA id : id \in DOMAIN tags /\ Matches(tags[id], filters))
      last == IF skip + limit < Len(all) THEN skip + limit ELSE Len(all)
  IN [i \in 1..(IF last > skip THEN last - skip ELSE 0) |-> tags[all[skip + i]]]

countTags(filters) ==
  Cardinality({id \in DOMAIN tags : Matches(tags[id], filters)})

\* the document created for a tag
NewTag(id, tag) == [tag EXCEPT !.id = id]

\* the document after update: the defined fields of the update are set
UpdatedTag(old, update) ==
  [f \in TagFields |->
     IF f \in DOMAIN update /\ f # "id" /\ update[f] # UNDEF
       THEN update[f] ELSE old[f]]

\* the filters and the pagination of a request for tags
getTagFiltersAndPagination(q) == getFiltersAndPaginationFromBody(q)

\* the public shape of a document
mapTagToAPI(tag) == tag
mapTagsToAPI(list) == [i \in 1..Len(list) |-> mapTagToAPI(list[i])]

(***************************************************************************)
(* The controller: pieces of the handlers between two awaits.              *)
(***************************************************************************)
Outcome(events, returned) == [events |-> events, returned |-> returned]

\* the catch without a response to the client
Caught_swallowed(error) == <<>>

\* catch (error) { ErrorHandler.handleAppErrorResponse(res, error); return; }
Caught(error) == <<App(error)>>

\* getTags, addTag: the checks of user and organization
SessionChecks(q) ==
  IF q.user = UNDEF THEN Outcome(<<Generic("USER_NOT_DEFINED")>>, TRUE)
  ELSE IF q.organization = UNDEF
    THEN Outcome(<<Generic("ORGANIZATION_NOT_DEFINED")>>, TRUE)
  ELSE Outcome(<<>>, FALSE)

\* addTag with a return after the response PROJECT_DATA_NOT_FOUND
addTagChecks_returnsWithoutData(q) ==
  IF SessionChecks(q).returned THEN SessionChecks(q)
  ELSE IF q.project = UNDEF
    THEN Outcome(<<Generic("PROJECT_NOT_DEFINED")>>, TRUE)
  ELSE IF ~q.body.present
    THEN Outcome(<<Generic("PROJECT_DATA_NOT_FOUND")>>, TRUE)
  ELSE Outcome(<<>>, FALSE)

\* addTag: the checks of user, organization, project and tagData
addTagChecks(q) ==
  IF SessionChecks(q).returned THEN SessionChecks(q)
  ELSE IF q.project = UNDEF
    THEN Outcome(<<Generic("PROJECT_NOT_DEFINED")>>, TRUE)
  ELSE IF ~q.body.present
    THEN Outcome(<<Generic("PROJECT_DATA_NOT_FOUND")>>, FALSE)
  ELSE Outcome(<<>>, FALSE)

\* addTag: { creatorId, organizationId, projectId, ...tagData }
addTagData(q) ==
  LET session == [creatorId |-> q.user, organizationId |-> q.organization,
                  projectId |-> q.project]
  IN [f \in TagFields |->
        IF f \in DOMAIN q.body.obj THEN q.body.obj[f]
        ELSE IF f \in DOMAIN session THEN session[f]
        ELSE UNDEF]

\* the permission gate without its return
PermissionGate_noReturn(allowed) ==
  IF ~allowed THEN Outcome(<<Generic("PERMISSION_DENIED")>>, FALSE)
  ELSE Outcome(<<>>, FALSE)

\* if (!hasPermission(...)(...)) { PERMISSION_DENIED; return; }
PermissionGate(allowed) ==
  IF ~allowed THEN Outcome(<<Generic("PERMISSION_DENIED")>>, TRUE)
  ELSE Outcome(<<>>, FALSE)

\* the organization check comparing nothing
OrganizationGate_absent(tag, organization) == Outcome(<<>>, FALSE)

\* if (String(tag.organizationId) !== String(organization.id)) { ...; return; }
OrganizationGate(tag, organization) ==
  IF tag.organizationId # organization
    THEN Outcome(<<Generic("TAG_NOT_IN_ORGANIZATION")>>, TRUE)
  ELSE Outcome(<<>>, FALSE)

\* updateTag passing every key of req.body on to the service
updateTagData_spreadsBody(q) ==
  [f \in {"_id", "name", "key", "description", "instructions"}
           \cup DOMAIN q.body.obj |->
     IF f = "_id" THEN q.tagId ELSE Field(q.body.obj, f)]

\* updateTag: the update built from req.body
updateTagData(q) ==
  [_id |-> q.tagId, name |-> Field(q.body.obj, "name"),
   key |-> Field(q.body.obj, "key"),
   description |-> Field(q.body.obj, "description"),
   instructions |-> Field(q.body.obj, "instructions")]

\* getTags: the envelope with the number of pages of the fetched tags
getTagsResponse_pagesOfData(fp, found, total) ==
  [ev |-> "res", name |-> "json", code |-> "", target |-> mapTagsToAPI(found),
   ok |-> TRUE, page |-> fp.page, pageSize |-> fp.pageSize,
   totalPages |-> getNumberOfPages(fp.pageSize, Len(found)),
   totalItems |-> total]

\* getTags: res.json(formatPaginatedResponse({ data, page, pageSize,
\* totalPages: getNumberOfPages(totalItems), totalItems }))
getTagsResponse(fp, found, total) ==
  [ev |-> "res", name |-> "json", code |-> "", target |-> mapTagsToAPI(found),
   ok |-> TRUE, page |-> fp.page, pageSize |-> fp.pageSize,
   totalPages |-> getNumberOfPages(fp.pageSize, total),
   totalItems |-> total]

\* deleteTag: the success response built from the tag that was looked up
deleteTagResult_answersLookedUp(deletedTag, tagToDelete) ==
  <<Json("Tag deleted successfully", mapTagsToAPI(tagToDelete))>>

\* deleteTag: the success response without the check of deletedTag
deleteTagResult_noNullCheck(deletedTag, tagToDelete) ==
  <<Json("Tag deleted successfully", mapTagsToAPI(deletedTag))>>

\* deleteTag: if (!deletedTag) { TAG_NOT_FOUND; return; } ... res.json(...)
deleteTagResult(deletedTag, tagToDelete) ==
  IF deletedTag = <<>>
    THEN <<Generic("TAG_NOT_FOUND")>>
    ELSE <<Json("Tag deleted successfully", <<mapTagToAPI(deletedTag[1])>>)>>

\* deleteTag: the checks of user, organization and tagId
deleteTagChecks(q) ==
  IF SessionChecks(q).returned THEN SessionChecks(q)
  ELSE IF q.tagId = UNDEF THEN Outcome(<<Generic("TAG_ID_NOT_FOUND")>>, TRUE)
  ELSE Outcome(<<>>, FALSE)

(***************************************************************************)
(* The state machine of the requests.                                      *)
(***************************************************************************)
Idle(r) == pc[r] \in {"idle", "done"}

\* a request arrives in slot r
Receive(r, q) ==
  /\ Idle(r)
  /\ served < MaxRequests
  /\ served' = served + 1
  /\ req' = [req EXCEPT ![r] = q]
  /\ before' = [before EXCEPT ![r] = tags]

\* the handler of slot r goes on: events, its next position, its locals
Step(r, events, position, bound) ==
  /\ trace' = [trace EXCEPT ![r] = @ \o events]
  /\ pc' = [pc EXCEPT ![r] = position]
  /\ local' = [local EXCEPT ![r] = bound]

\* the first step of a handler: the trace starts anew
Start(r, events, position) ==
  /\ trace' = [trace EXCEPT ![r] = events]
  /\ pc' = [pc EXCEPT ![r] = position]
  /\ local' = [local EXCEPT ![r] = <<>>]

Unserved == UNCHANGED <<served, req, before>>

----
\* getTags up to await tagService.findTags
getTags(r) ==
  \E user \in Users \cup {UNDEF}, organization \in Organizations \cup {UNDEF},
     qry \in TagQueries :
    LET q == [NoRequest EXCEPT !.kind = "getTags", !.user = user,
                !.organization = organization, !.query = qry]
        checks == SessionChecks(q)
    IN /\ Receive(r, q)
       /\ IF checks.returned
            THEN Start(r, checks.events, "done")
            ELSE Start(r, <<Call("findTags", "", <<>>)>>, "findTags")
       /\ UNCHANGED <<tags>>

\* getTags from findTags up to await tagService.countTags
getTags_findTags(r) ==
  /\ pc[r] = "findTags"
  /\ LET fp == getTagFiltersAndPagination(req[r].query)
         found == findTags(fp.filters, fp.skip.v, fp.pageSize.v)
     IN \/ \E error \in DatabaseErrors :
             Step(r, <<Throw("findTags", error)>> \o Caught(error), "done", <<>>)
        \/ \E allowed \in hasPermission("tag:read", found) :
             LET gate == PermissionGate(allowed)
                 done == <<Return("findTags", found),
                           Perm("tag:read", found, allowed)>> \o gate.events
             IN IF gate.returned
                  THEN Step(r, done, "done", found)
                  ELSE Step(r, done \o <<Call("countTags", "", <<>>)>>,
                            "countTags", found)
  /\ UNCHANGED <<tags>>
  /\ Unserved

\* getTags from countTags to the response
getTags_countTags(r) ==
  /\ pc[r] = "countTags"
  /\ LET fp == getTagFiltersAndPagination(req[r].query)
         total == countTags(fp.filters)
     IN \/ \E error \in DatabaseErrors :
             Step(r, <<Throw("countTags", error)>> \o Caught(error), "done",
                  local[r])
        \/ Step(r, <<Return("countTags", <<>>),
                     getTagsResponse(fp, local[r], total)>>,
                "done", local[r])
  /\ UNCHANGED <<tags>>
  /\ Unserved

----
\* addTag up to await tagService.createTag
addTag(r) ==
  \E user \in Users \cup {UNDEF}, organization \in Organizations \cup {UNDEF},
     project \in Projects \cup {UNDEF}, body \in Bodies :
    LET q == [NoRequest EXCEPT !.kind = "addTag", !.user = user,
                !.organization = organization, !.project = project,
                !.body = body]
        checks == addTagChecks(q)
        tag == addTagData(q)
    IN /\ Receive(r, q)
       /\ Cardinality(DOMAIN tags) < Cardinality(TagIds)
       /\ IF checks.returned
            THEN Start(r, checks.events, "done")
            ELSE \E allowed \in hasPermission("tag:admin", <<tag>>) :
                   LET gate == PermissionGate(allowed)
                       done == checks.events
                                 \o <<Perm("tag:admin", <<tag>>, allowed)>>
                                 \o gate.events
                   IN IF gate.returned
                        THEN Start(r, done, "done")
                        ELSE Start(r, done \o <<Call("createTag", "", <<tag>>)>>,
                                   "createTag")
       /\ UNCHANGED <<tags>>

\* addTag from createTag to the response
addTag_createTag(r) ==
  /\ pc[r] = "createTag"
  /\ \/ /\ \E error \in DatabaseErrors :
             Step(r, <<Throw("createTag", error)>> \o Caught(error), "done", <<>>)
        /\ UNCHANGED <<tags>>
     \/ LET id == CHOOSE i \in TagIds \ DOMAIN tags : TRUE
             newTag == NewTag(id, addTagData(req[r]))
          IN /\ tags' = (id :> newTag) @@ tags
             /\ Step(r, <<Return("createTag", <<newTag>>),
                          Json("Tag created successfully",
                               <<mapTagToAPI(newTag)>>)>>,
                     "done", <<newTag>>)
  /\ Unserved

----
\* updateTag up to await tagService.getTagById
updateTag(r) ==
  \E user \in Users \cup {UNDEF}, organization \in Organizations \cup {UNDEF},
     tagId \in TagIds \cup {UNDEF}, body \in Bodies :
    LET q == [NoRequest EXCEPT !.kind = "updateTag", !.user = user,
                !.organization = organization, !.tagId = tagId,
                !.body = body]
        checks == SessionChecks(q)
    IN /\ Receive(r, q)
       /\ IF checks.returned
            THEN Start(r, checks.events, "done")
            ELSE IF ~body.present
              \* req.body.name of an absent body throws inside the try
              THEN Start(r, Caught("TypeError"), "done")
            ELSE Start(r, <<Call("getTagById", tagId, <<>>)>>, "getTagById")
       /\ UNCHANGED <<tags>>

\* updateTag from getTagById up to await tagService.updateTagById
updateTag_getTagById(r) ==
  /\ pc[r] = "getTagById"
  /\ req[r].kind = "updateTag"
  /\ LET tagId == req[r].tagId
     IN \/ \E error \in getTagByIdErrors(tagId) :
             Step(r, <<Throw("getTagById", error)>> \o Caught(error), "done", <<>>)
        \/ /\ tagId \in DOMAIN tags
           /\ LET tagToDelete == tags[tagId]
              IN \E allowed \in hasPermission("tag:write", <<tagToDelete>>) :
                   LET gate == PermissionGate(allowed)
                       org == OrganizationGate(tagToDelete, req[r].organization)
                       done == <<Return("getTagById", <<tagToDelete>>),
                                 Perm("tag:write", <<tagToDelete>>, allowed)>>
                                 \o gate.events
                   IN IF gate.returned
                        THEN Step(r, done, "done", <<tagToDelete>>)
                      ELSE IF org.returned
                        THEN Step(r, done \o org.events, "done", <<tagToDelete>>)
                      ELSE Step(r, done \o org.events
                                     \o <<Call("updateTagById", tagId, <<>>)>>,
                                "updateTagById", <<tagToDelete>>)
  /\ UNCHANGED <<tags>>
  /\ Unserved

\* updateTag from updateTagById to the response
updateTag_updateTagById(r) ==
  /\ pc[r] = "updateTagById"
  /\ LET tagId == req[r].tagId
     IN \/ /\ \E error \in updateTagByIdErrors(tagId) :
                Step(r, <<Throw("updateTagById", error)>> \o Caught(error),
                     "done", local[r])
           /\ UNCHANGED <<tags>>
        \/ /\ tagId \in DOMAIN tags
           /\ LET updatedTag == UpdatedTag(tags[tagId], updateTagData(req[r]))
              IN /\ tags' = [tags EXCEPT ![tagId] = updatedTag]
                 /\ Step(r, <<Return("updateTagById", <<updatedTag>>),
                              Json("Tag updated successfully",
                                   <<mapTagToAPI(updatedTag)>>)>>,
                         "done", local[r])
  /\ Unserved

----
\* deleteTag up to await tagService.getTagById
deleteTag(r) ==
  \E user \in Users \cup {UNDEF}, organization \in Organizations \cup {UNDEF},
     tagId \in TagIds \cup {UNDEF} :
    LET q == [NoRequest EXCEPT !.kind = "deleteTag", !.user = user,
                !.organization = organization, !.tagId = tagId]
        checks == deleteTagChecks(q)
    IN /\ Receive(r, q)
       /\ IF checks.returned
            THEN Start(r, checks.events, "done")
            ELSE Start(r, <<Call("getTagById", tagId, <<>>)>>, "getTagById")
       /\ UNCHANGED <<tags>>

\* deleteTag from getTagById up to await tagService.deleteTagById
deleteTag_getTagById(r) ==
  /\ pc[r] = "getTagById"
  /\ req[r].kind = "deleteTag"
  /\ LET tagId == req[r].tagId
     IN \/ \E error \in getTagByIdErrors(tagId) :
             Step(r, <<Throw("getTagById", error)>> \o Caught(error), "done", <<>>)
        \/ /\ tagId \in DOMAIN tags
           /\ LET tagToDelete == tags[tagId]
              IN \E allowed \in hasPermission("tag:admin", <<tagToDelete>>) :
                   LET gate == PermissionGate(allowed)
                       org == OrganizationGate(tagToDelete, req[r].organization)
                       done == <<Return("getTagById", <<tagToDelete>>),
                                 Perm("tag:admin", <<tagToDelete>>, allowed)>>
                                 \o gate.events
                   IN IF gate.returned
                        THEN Step(r, done, "done", <<tagToDelete>>)
                      ELSE IF org.returned
                        THEN Step(r, done \o org.events, "done", <<tagToDelete>>)
                      ELSE Step(r, done \o org.events
                                     \o <<Call("deleteTagById", tagId, <<>>)>>,
                                "deleteTagById", <<tagToDelete>>)
  /\ UNCHANGED <<tags>>
  /\ Unserved

\* deleteTag from deleteTagById to the response
deleteTag_deleteTagById(r) ==
  /\ pc[r] = "deleteTagById"
  /\ LET tagId == req[r].tagId
         deletedTag == IF tagId \in DOMAIN tags THEN <<tags[tagId]>> ELSE <<>>
     IN \/ /\ \E error \in DatabaseErrors :
                Step(r, <<Throw("deleteTagById", error)>> \o Caught(error),
                     "done", local[r])
           /\ UNCHANGED <<tags>>
        \/ /\ tags' = [id \in (DOMAIN tags) \ {tagId} |-> tags[id]]
           /\ Step(r, <<Return("deleteTagById", deletedTag)>>
                        \o deleteTagResult(deletedTag, local[r]),
                   "done", local[r])
  /\ Unserved

(***************************************************************************)
(* services/organization.service.ts                                        *)
(***************************************************************************)
OrgCalls == {1, 2}
OrgFields == {"id", "name", "creatorId", "membersIds", "adminsIds", "plan"}
PlanFields == {"type", "status", "period"}

\* the ids the database gives to created organizations, in order; the first
\* is the id of the organization stored from the start
OrgIdPool == <<"o1", "o2", "o3", "o4", "o5">>
GhostId == "o0"
ValidNames == {"acme", "zeta"}

SeedOrganization ==
  [id |-> "o1", name |-> "acme", creatorId |-> "u1", membersIds |-> {"u1"},
   adminsIds |-> {"u1"}, plan |-> [type |-> "FREE", status |-> "active"]]

\* an organization object whose id matches no stored organization
GhostOrganization ==
  [id |-> GhostId, name |-> "acme", creatorId |-> "u1", membersIds |-> {"u1"},
   adminsIds |-> {"u1"}, plan |-> [type |-> "FREE"]]

\* the arguments of the calls
CreationData ==
  {[name |-> "acme"], [name |-> "ab"], <<>>,
   [name |-> "zeta", creatorId |-> "u2"],
   [name |-> "zeta", membersIds |-> {"u2"}, adminsIds |-> {"u2"}]}
OrganizationUpdates ==
  {[name |-> "zeta"], [name |-> "ab"], <<>>,
   [membersIds |-> {"u1", "u2"}], [membersIds |-> {}],
   [name |-> "zeta", adminsIds |-> {}]}
PlanUpdates ==
  {[type |-> "PREMIUM"], [status |-> "canceled"],
   [type |-> "ENTERPRISE", period |-> "YEARLY"], <<>>}
KnownIds == {GhostId} \cup {OrgIdPool[i] : i \in 1..allocated}

NoCall ==
  [op |-> "none", id |-> GhostId, userId |-> UNDEF, data |-> <<>>,
   organization |-> GhostOrganization, plan |-> <<>>]
NoOutcome == [status |-> "none", code |-> "", doc |-> <<>>]
Returned(doc) == [status |-> "returned", code |-> "", doc |-> doc]
Thrown(code) == [status |-> "thrown", code |-> code, doc |-> <<>>]

\* a database operation of a call: the document it matched and what is
\* stored for that id after it (empty when there is none)
Operation(op, id, was, now) == [op |-> op, id |-> id, was |-> was, now |-> now]
Stored(id) == IF id \in DOMAIN orgs THEN <<orgs[id]>> ELSE <<>>

\* validateOrganization(organization, fields): the fields in error
FieldIsValid(organization, field) ==
  IF field = "name"
    THEN field \in DOMAIN organization /\ organization[field] \in ValidNames
  ELSE IF field \in {"membersIds", "adminsIds"}
    THEN field \in DOMAIN organization /\ organization[field] # {}
  ELSE TRUE
validateOrganization(organization, fields) ==
  {field \in fields : ~FieldIsValid(organization, field)}

\* createOrganization: validateOrganization(organization, ['name'])
CreatedKeys(organization) == {"name"}

\* updateOrganizationById validating the name only
UpdatedKeys_nameOnly(organization) == {"name"}

\* updateOrganizationById: Object.keys(organization)
UpdatedKeys(organization) == DOMAIN organization

\* createOrganization: { creatorId, membersIds, adminsIds, ...organization }
NewOrganization(organization, userId) ==
  LET defaults == [creatorId |-> userId, membersIds |-> {userId},
                   adminsIds |-> {userId}, name |-> UNDEF, plan |-> <<>>,
                   id |-> UNDEF]
  IN [f \in OrgFields |->
        IF f \in DOMAIN organization THEN organization[f] ELSE defaults[f]]

\* updateOne({ _id }, organization): the fields of the update are set
UpdatedOrganization(old, update) ==
  [f \in OrgFields |-> IF f \in DOMAIN update THEN update[f] ELSE old[f]]

\* updatePlan storing the partial plan alone
PlanToSet_planOnly(organization, plan) == plan

\* updatePlan: { ...prevPlan, ...plan } with prevPlan = organization.plan ?? {}
PlanToSet(organization, plan) ==
  [f \in (DOMAIN organization.plan) \cup (DOMAIN plan) |->
     IF f \in DOMAIN plan THEN plan[f] ELSE organization.plan[f]]

\* every miss answered ORGANIZATION_NOT_FOUND
MissError_alwaysNotFound(op) == "ORGANIZATION_NOT_FOUND"

\* the error of an operation whose database call matched no organization
MissError(op) ==
  IF op \in {"updateOrganizationById", "updatePlan"}
    THEN "ORGANIZATION_UPDATE_FAILED"
    ELSE "ORGANIZATION_NOT_FOUND"

\* a service call begins: its arguments are bound
Begin(c, call) ==
  /\ opc[c] \in {"idle", "done"}
  /\ ocalls < MaxCalls
  /\ ocalls' = ocalls + 1
  /\ oreq' = [oreq EXCEPT ![c] = call]
  /\ olog' = [olog EXCEPT ![c] = <<>>]

\* a service call goes on after a database operation
Resume(c, operation, position, outcome) ==
  /\ olog' = [olog EXCEPT ![c] = Append(@, operation)]
  /\ opc' = [opc EXCEPT ![c] = position]
  /\ ores' = [ores EXCEPT ![c] = outcome]
  /\ UNCHANGED <<oreq, ocalls>>

\* const organization = await OrganizationModel.findById(organizationId)
FindById(c, position) ==
  LET id == oreq[c].id
  IN /\ opc[c] = position
     /\ Resume(c, Operation("findById", id, Stored(id), Stored(id)), "done",
               IF id \in DOMAIN orgs THEN Returned(<<orgs[id]>>)
               ELSE Thrown("ORGANIZATION_NOT_FOUND"))
     /\ UNCHANGED <<orgs, allocated, lastWriter>>

----
\* getOrganizationById up to await OrganizationModel.findById
getOrganizationById(c) ==
  \E id \in KnownIds :
    /\ Begin(c, [NoCall EXCEPT !.op = "getOrganizationById", !.id = id])
    /\ opc' = [opc EXCEPT ![c] = "findById"]
    /\ ores' = [ores EXCEPT ![c] = NoOutcome]
    /\ UNCHANGED <<orgs, allocated, lastWriter>>

\* getOrganizationById, updateOrganizationById and updatePlan from findById
\* to the return
getOrganizationById_findById(c) == FindById(c, "findById")

----
\* createOrganization up to await OrganizationModel.create
createOrganization(c) ==
  \E data \in CreationData, userId \in Users :
    LET errors == validateOrganization(data, CreatedKeys(data))
    IN /\ Begin(c, [NoCall EXCEPT !.op = "createOrganization",
                      !.data = data, !.userId = userId])
       /\ allocated < Len(OrgIdPool)
       /\ IF errors # {}
            THEN /\ opc' = [opc EXCEPT ![c] = "done"]
                 /\ ores' = [ores EXCEPT ![c] =
                               Thrown("ORGANIZATION_INVALID_FIELDS")]
            ELSE /\ opc' = [opc EXCEPT ![c] = "create"]
                 /\ ores' = [ores EXCEPT ![c] = NoOutcome]
       /\ UNCHANGED <<orgs, allocated, lastWriter>>

\* createOrganization from OrganizationModel.create to the return
createOrganization_create(c) ==
  /\ opc[c] = "create"
  /\ \/ \* the database rejects the document
        /\ Resume(c, Operation("create", GhostId, <<>>, <<>>), "done",
                  Thrown("ORGANIZATION_CREATION_FAILED"))
        /\ UNCHANGED <<orgs, allocated, lastWriter>>
     \/ LET id == OrgIdPool[allocated + 1]
            doc == [NewOrganization(oreq[c].data, oreq[c].userId)
                      EXCEPT !.id = id]
        IN /\ orgs' = (id :> doc) @@ orgs
           /\ allocated' = allocated + 1
           /\ lastWriter' = c
           /\ Resume(c, Operation("create", id, <<>>, <<doc>>), "done",
                     Returned(<<doc>>))

----
\* updateOrganizationById up to await OrganizationModel.updateOne
updateOrganizationById(c) ==
  \E id \in KnownIds, data \in OrganizationUpdates :
    LET errors == validateOrganization(data, UpdatedKeys(data))
    IN /\ Begin(c, [NoCall EXCEPT !.op = "updateOrganizationById",
                      !.id = id, !.data = data])
       /\ IF errors # {}
            THEN /\ opc' = [opc EXCEPT ![c] = "done"]
                 /\ ores' = [ores EXCEPT ![c] =
                               Thrown("ORGANIZATION_INVALID_FIELDS")]
            ELSE /\ opc' = [opc EXCEPT ![c] = "updateOne"]
                 /\ ores' = [ores EXCEPT ![c] = NoOutcome]
       /\ UNCHANGED <<orgs, allocated, lastWriter>>

\* updateOrganizationById from updateOne up to await getOrganizationById
updateOrganizationById_updateOne(c) ==
  LET id == oreq[c].id
  IN /\ opc[c] = "updateOne"
     /\ oreq[c].op = "updateOrganizationById"
     /\ IF id \in DOMAIN orgs
          THEN LET doc == UpdatedOrganization(orgs[id], oreq[c].data)
               IN /\ orgs' = [orgs EXCEPT ![id] = doc]
                  /\ lastWriter' = c
                  /\ Resume(c, Operation("updateOne", id, <<orgs[id]>>, <<doc>>),
                            "findById", NoOutcome)
          ELSE /\ Resume(c, Operation("updateOne", id, <<>>, <<>>), "done",
                         Thrown(MissError(oreq[c].op)))
               /\ UNCHANGED <<orgs, lastWriter>>
     /\ UNCHANGED allocated

----
\* deleteOrganizationById up to await OrganizationModel.findByIdAndDelete
deleteOrganizationById(c) ==
  \E id \in KnownIds :
    /\ Begin(c, [NoCall EXCEPT !.op = "deleteOrganizationById", !.id = id])
    /\ opc' = [opc EXCEPT ![c] = "findByIdAndDelete"]
    /\ ores' = [ores EXCEPT ![c] = NoOutcome]
    /\ UNCHANGED <<orgs, allocated, lastWriter>>

\* deleteOrganizationById from findByIdAndDelete to the return
deleteOrganizationById_findByIdAndDelete(c) ==
  LET id == oreq[c].id
  IN /\ opc[c] = "findByIdAndDelete"
     /\ IF id \in DOMAIN orgs
          THEN /\ orgs' = [i \in (DOMAIN orgs) \ {id} |-> orgs[i]]
               /\ lastWriter' = c
               /\ Resume(c, Operation("findByIdAndDelete", id, <<orgs[id]>>,
                                      <<>>),
                         "done", Returned(<<orgs[id]>>))
          ELSE /\ Resume(c, Operation("findByIdAndDelete", id, <<>>, <<>>),
                         "done", Thrown(MissError(oreq[c].op)))
               /\ UNCHANGED <<orgs, lastWriter>>
     /\ UNCHANGED allocated

----
\* updatePlan up to await OrganizationModel.updateOne; the organization
\* passed is one the caller has read, or one that is not stored
updatePlan(c) ==
  \E organization \in {GhostOrganization} \cup {orgs[id] : id \in DOMAIN orgs},
     plan \in PlanUpdates :
    /\ Begin(c, [NoCall EXCEPT !.op = "updatePlan", !.id = organization.id,
                   !.organization = organization, !.plan = plan])
    /\ opc' = [opc EXCEPT ![c] = "updateOne"]
    /\ ores' = [ores EXCEPT ![c] = NoOutcome]
    /\ UNCHANGED <<orgs, allocated, lastWriter>>

\* updatePlan from updateOne up to await getOrganizationById
updatePlan_updateOne(c) ==
  LET id == oreq[c].id
  IN /\ opc[c] = "updateOne"
     /\ oreq[c].op = "updatePlan"
     /\ IF id \in DOMAIN orgs
          THEN LET doc == [orgs[id] EXCEPT
                             !.plan = PlanToSet(oreq[c].organization,
                                                oreq[c].plan)]
               IN /\ orgs' = [orgs EXCEPT ![id] = doc]
                  /\ lastWriter' = c
                  /\ Resume(c, Operation("updateOne", id, <<orgs[id]>>, <<doc>>),
                            "findById", NoOutcome)
          ELSE /\ Resume(c, Operation("updateOne", id, <<>>, <<>>), "done",
                         Thrown(MissError(oreq[c].op)))
               /\ UNCHANGED <<orgs, lastWriter>>
     /\ UNCHANGED allocated

OrgIdle ==
  /\ orgs = ("o1" :> SeedOrganization)
  /\ opc = [c \in OrgCalls |-> "idle"]
  /\ oreq = [c \in OrgCalls |-> NoCall]
  /\ ores = [c \in OrgCalls |-> NoOutcome]
  /\ olog = [c \in OrgCalls |-> <<>>]
  /\ allocated = 1
  /\ lastWriter = 0
  /\ ocalls = 0

OrgNext ==
  \E c \in OrgCalls :
    \/ getOrganizationById(c) /\ UNCHANGED <<pgvars, tagvars, payvars, chatvars>>
    \/ getOrganizationById_findById(c) /\ UNCHANGED <<pgvars, tagvars, payvars, chatvars>>
    \/ createOrganization(c) /\ UNCHANGED <<pgvars, tagvars, payvars, chatvars>>
    \/ createOrganization_create(c) /\ UNCHANGED <<pgvars, tagvars, payvars, chatvars>>
    \/ updateOrganizationById(c) /\ UNCHANGED <<pgvars, tagvars, payvars, chatvars>>
    \/ updateOrganizationById_updateOne(c) /\ UNCHANGED <<pgvars, tagvars, payvars, chatvars>>
    \/ deleteOrganizationById(c) /\ UNCHANGED <<pgvars, tagvars, payvars, chatvars>>
    \/ deleteOrganizationById_findByIdAndDelete(c)
         /\ UNCHANGED <<pgvars, tagvars, payvars, chatvars>>
    \/ updatePlan(c) /\ UNCHANGED <<pgvars, tagvars, payvars, chatvars>>
    \/ updatePlan_updateOne(c) /\ UNCHANGED <<pgvars, tagvars, payvars, chatvars>>

(***************************************************************************)
(* components/DocPage/ContributionMessage/index.tsx: PaymentStepContent    *)
(***************************************************************************)
NoPlan == [type |-> UNDEF, status |-> UNDEF]
PlanTypes == {"premium", "PREMIUM", "free"}
PlanStatuses == {"active", "canceled"}
PlanDatas ==
  {NoPlan} \cup [type : PlanTypes, status : PlanStatuses]
RequestedPlans == {"PREMIUM", "free"}

\* String.prototype.toUpperCase on the plan names
toUpperCase(s) ==
  IF s \in {"premium", "PREMIUM"} THEN "PREMIUM"
  ELSE IF s \in {"free", "FREE"} THEN "FREE"
  ELSE s

\* const isPlanValid = planData && planData.type.toUpperCase() ===
\* plan.toUpperCase() && planData.status === 'active'
isPlanValid ==
  /\ planData # NoPlan
  /\ toUpperCase(planData.type) = toUpperCase(requestedPlan)
  /\ planData.status = "active"

\* const isSubmitDisabled = isLoading || (!isPlanValid && !isPaymentElementReady)
isSubmitDisabled == isLoading \/ (~isPlanValid /\ ~isPaymentElementReady)

\* router.push(nextUrl)
goNextStep == route' = "next"

\* onSubmit confirming the payment whatever Stripe's state
onSubmitStarts_unguarded ==
  IF isPlanValid THEN "goNextStep" ELSE "confirmPayment"

\* onSubmit up to the await: what the handler does
onSubmitStarts ==
  IF isPlanValid THEN "goNextStep"
  ELSE IF ~stripe \/ ~elements THEN "return"
  ELSE IF ~mounted THEN "return"
  ELSE "confirmPayment"

\* the form is submitted: onSubmit up to await stripe.confirmPayment; the
\* submit control is disabled while isLoading
onSubmit ==
  /\ route = "payment"
  /\ ~isLoading
  /\ submits < MaxSubmits
  /\ submits' = submits + 1
  /\ IF onSubmitStarts = "goNextStep"
       THEN /\ goNextStep
            /\ paylog' = Append(paylog, "goNextStep")
            /\ UNCHANGED <<isLoading, payment>>
     ELSE IF onSubmitStarts = "return"
       THEN /\ paylog' = Append(paylog, "return")
            /\ UNCHANGED <<isLoading, payment, route>>
     ELSE /\ isLoading' = TRUE
          /\ payment' = "pending"
          /\ paylog' = Append(paylog, "confirmPayment")
          /\ UNCHANGED route
  /\ UNCHANGED <<planData, requestedPlan, stripe, elements, mounted,
                 isPaymentElementReady, isPaymentSuccessful>>

\* confirmPayment resolves without an error: the then callback, and
\* setIsLoading(false) after the await
confirmPayment_resolved ==
  /\ payment = "pending"
  /\ payment' = "resolved"
  /\ isPaymentSuccessful' = TRUE
  /\ goNextStep
  /\ paylog' = paylog \o <<"setState", "goNextStep">>
  /\ isLoading' = FALSE
  /\ UNCHANGED <<planData, requestedPlan, stripe, elements, mounted,
                 isPaymentElementReady, submits>>

\* confirmPayment resolves with result.error
confirmPayment_error ==
  /\ payment = "pending"
  /\ payment' = "error"
  /\ paylog' = Append(paylog, "console.error")
  /\ isLoading' = FALSE
  /\ UNCHANGED <<planData, requestedPlan, stripe, elements, mounted,
                 isPaymentElementReady, isPaymentSuccessful, route, submits>>

\* the promise awaited rejects: onSubmit ends at the await
confirmPayment_rejected ==
  /\ payment = "pending"
  /\ payment' = "rejected"
  /\ UNCHANGED <<planData, requestedPlan, stripe, elements, mounted,
                 isPaymentElementReady, isLoading, isPaymentSuccessful, route,
                 paylog, submits>>

\* Stripe.js has loaded: useStripe() and useElements() return their values
StripeLoads ==
  /\ route = "payment"
  /\ ~stripe \/ ~elements
  /\ \E s \in {stripe, TRUE}, e \in {elements, TRUE} :
       /\ <<s, e>> # <<stripe, elements>>
       /\ stripe' = s
       /\ elements' = e
  /\ UNCHANGED <<planData, requestedPlan, mounted, isPaymentElementReady,
                 isLoading, isPaymentSuccessful, route, payment, paylog,
                 submits>>

\* the PaymentElement, rendered when the plan is not valid, mounts
PaymentElementMounts ==
  /\ route = "payment"
  /\ ~isPlanValid
  /\ elements
  /\ ~mounted
  /\ mounted' = TRUE
  /\ UNCHANGED <<planData, requestedPlan, stripe, elements,
                 isPaymentElementReady, isLoading, isPaymentSuccessful, route,
                 payment, paylog, submits>>

\* <PaymentElement onReady={() => setIsPaymentElementReady(true)} />
PaymentElementReady ==
  /\ route = "payment"
  /\ mounted
  /\ stripe
  /\ ~isPaymentElementReady
  /\ isPaymentElementReady' = TRUE
  /\ UNCHANGED <<planData, requestedPlan, stripe, elements, mounted, isLoading,
                 isPaymentSuccessful, route, payment, paylog, submits>>

PayIdle ==
  /\ planData = NoPlan
  /\ requestedPlan = "PREMIUM"
  /\ stripe = FALSE
  /\ elements = FALSE
  /\ mounted = FALSE
  /\ isPaymentElementReady = FALSE
  /\ isLoading = FALSE
  /\ isPaymentSuccessful = FALSE
  /\ route = "off"
  /\ payment = "none"
  /\ paylog = <<>>
  /\ submits = 0

\* the payment step is shown
PayShown ==
  /\ planData \in PlanDatas
  /\ requestedPlan \in RequestedPlans
  /\ stripe = FALSE
  /\ elements = FALSE
  /\ mounted = FALSE
  /\ isPaymentElementReady = FALSE
  /\ isLoading = FALSE
  /\ isPaymentSuccessful = FALSE
  /\ route = "payment"
  /\ payment = "none"
  /\ paylog = <<>>
  /\ submits = 0

PayNext ==
  \/ onSubmit /\ UNCHANGED <<pgvars, tagvars, orgvars, chatvars>>
  \/ confirmPayment_resolved /\ UNCHANGED <<pgvars, tagvars, orgvars, chatvars>>
  \/ confirmPayment_error /\ UNCHANGED <<pgvars, tagvars, orgvars, chatvars>>
  \/ confirmPayment_rejected /\ UNCHANGED <<pgvars, tagvars, orgvars, chatvars>>
  \/ StripeLoads /\ UNCHANGED <<pgvars, tagvars, orgvars, chatvars>>
  \/ PaymentElementMounts /\ UNCHANGED <<pgvars, tagvars, orgvars, chatvars>>
  \/ PaymentElementReady /\ UNCHANGED <<pgvars, tagvars, orgvars, chatvars>>

\* the promise of confirmPayment is settled
Settles ==
  /\ \/ confirmPayment_resolved
     \/ confirmPayment_error
     \/ confirmPayment_rejected
  /\ UNCHANGED <<pgvars, tagvars, orgvars, chatvars>>

(***************************************************************************)
(* components/TextArea/autosizedTextarea.stories.tsx: ChatInterface        *)
(***************************************************************************)
ChatChars == {"a", " ", "\n"}
WhiteSpace == {" ", "\n"}

\* String.prototype.trim
RECURSIVE trimStart(_)
trimStart(s) ==
  IF s # <<>> /\ Head(s) \in WhiteSpace THEN trimStart(Tail(s)) ELSE s
RECURSIVE trimEnd(_)
trimEnd(s) ==
  IF s # <<>> /\ s[Len(s)] \in WhiteSpace
    THEN trimEnd(SubSeq(s, 1, Len(s) - 1))
    ELSE s
trim(s) == trimEnd(trimStart(s))

\* the messages of the story
InitialMessages ==
  <<[text |-> <<"Hey there!">>, sender |-> "friend"],
    [text |-> <<"How's your day going?">>, sender |-> "friend"],
    [text |-> <<"Pretty good!">>, sender |-> "you"]>>

\* <button onClick={sendMessage} disabled={!message.trim()}>
SendDisabled == trim(chatMessage) = <<>>

\* sendMessage appending the text as typed
sendMessage_untrimmed ==
  IF trim(chatMessage) # <<>>
    THEN /\ messages' = Append(messages,
                               [text |-> chatMessage, sender |-> "you"])
         /\ chatMessage' = <<>>
    ELSE UNCHANGED <<chatMessage, messages>>

\* const sendMessage = () => { if (message.trim()) { ... } }
sendMessage ==
  IF trim(chatMessage) # <<>>
    THEN /\ messages' = Append(messages,
                               [text |-> trim(chatMessage), sender |-> "you"])
         /\ chatMessage' = <<>>
    ELSE UNCHANGED <<chatMessage, messages>>

\* onChange={(e) => setMessage(e.target.value)}: a character is typed, with
\* Shift+Enter for a new line, or the last one is deleted
onChange ==
  /\ \/ /\ Len(chatMessage) < MaxMessageLen
        /\ \E c \in ChatChars : chatMessage' = Append(chatMessage, c)
     \/ /\ chatMessage # <<>>
        /\ chatMessage' = SubSeq(chatMessage, 1, Len(chatMessage) - 1)
  /\ chatEvent' = "change"
  /\ UNCHANGED messages

\* handleKeyDown of Enter without Shift
handleKeyDown ==
  /\ Len(messages) < Len(InitialMessages) + MaxSends
  /\ sendMessage
  /\ chatEvent' = "enter"

\* a click on Send, which is refused by a disabled button
onClick ==
  /\ Len(messages) < Len(InitialMessages) + MaxSends
  /\ ~SendDisabled
  /\ sendMessage
  /\ chatEvent' = "click"

ChatIdle ==
  /\ chatMessage = <<>>
  /\ messages = <<>>
  /\ chatEvent = "none"

\* the story is rendered
ChatShown ==
  /\ chatMessage = <<>>
  /\ messages = InitialMessages
  /\ chatEvent = "none"

ChatNext ==
  \/ onChange /\ UNCHANGED <<pgvars, tagvars, orgvars, payvars>>
  \/ handleKeyDown /\ UNCHANGED <<pgvars, tagvars, orgvars, payvars>>
  \/ onClick /\ UNCHANGED <<pgvars, tagvars, orgvars, payvars>>

(***************************************************************************)
(* Specifications.                                                         *)
(***************************************************************************)
PgIdle ==
  /\ pgpc = "off"
  /\ query = NoQuery
  /\ reqBody = NoQuery
  /\ result = NoResult
  /\ totalItems = 0
  /\ numberOfPages = Num(0)

TagIdle ==
  /\ tags = <<>>
  /\ pc = [r \in AllSlots |-> "idle"]
  /\ req = [r \in AllSlots |-> NoRequest]
  /\ trace = [r \in AllSlots |-> <<>>]
  /\ local = [r \in AllSlots |-> <<>>]
  /\ before = [r \in AllSlots |-> <<>>]
  /\ served = 0

PgInit ==
  /\ pgpc = "request"
  /\ query \in Queries
  /\ reqBody \in RequestBodies
  /\ result = NoResult
  /\ totalItems = 0
  /\ numberOfPages = Num(0)
  /\ TagIdle
  /\ OrgIdle
  /\ PayIdle
  /\ ChatIdle

\* the extractor is applied to the request
Extract ==
  /\ pgpc = "request"
  /\ result' = getFiltersAndPaginationFromBody(QueryOf(Request(query, reqBody)))
  /\ pgpc' = "extracted"
  /\ UNCHANGED <<query, reqBody, totalItems, numberOfPages>>
  /\ UNCHANGED <<tagvars, orgvars, payvars, chatvars>>

\* the caller applies the returned getNumberOfPages to a count of items
CountPages ==
  /\ pgpc = "extracted"
  /\ \E total \in 0..MaxTotal :
       /\ totalItems' = total
       /\ numberOfPages' = getNumberOfPages(result.pageSize, total)
  /\ pgpc' = "counted"
  /\ UNCHANGED <<query, reqBody, result>>
  /\ UNCHANGED <<tagvars, orgvars, payvars, chatvars>>

PgNext == Extract \/ CountPages

SpecPagination == PgInit /\ [][PgNext]_vars

Init == PgIdle /\ TagIdle /\ OrgIdle /\ PayIdle /\ ChatIdle

Next ==
  \E r \in Slots :
    \/ getTags(r) /\ UNCHANGED <<pgvars, orgvars, payvars, chatvars>>
    \/ getTags_findTags(r) /\ UNCHANGED <<pgvars, orgvars, payvars, chatvars>>
    \/ getTags_countTags(r) /\ UNCHANGED <<pgvars, orgvars, payvars, chatvars>>
    \/ addTag(r) /\ UNCHANGED <<pgvars, orgvars, payvars, chatvars>>
    \/ addTag_createTag(r) /\ UNCHANGED <<pgvars, orgvars, payvars, chatvars>>
    \/ updateTag(r) /\ UNCHANGED <<pgvars, orgvars, payvars, chatvars>>
    \/ updateTag_getTagById(r) /\ UNCHANGED <<pgvars, orgvars, payvars, chatvars>>
    \/ updateTag_updateTagById(r) /\ UNCHANGED <<pgvars, orgvars, payvars, chatvars>>
    \/ deleteTag(r) /\ UNCHANGED <<pgvars, orgvars, payvars, chatvars>>
    \/ deleteTag_getTagById(r) /\ UNCHANGED <<pgvars, orgvars, payvars, chatvars>>
    \/ deleteTag_deleteTagById(r) /\ UNCHANGED <<pgvars, orgvars, payvars, chatvars>>

Spec == Init /\ [][Next]_vars

(***************************************************************************)
(* Concurrent requests: two deleteTag handlers interleave at their awaits  *)
(* over a store that holds a tag of each organization.                     *)
(***************************************************************************)
StoredTag(id, organization) ==
  [f \in TagFields |->
     IF f = "id" THEN id
     ELSE IF f = "organizationId" THEN organization
     ELSE IF f = "projectId" THEN "p1"
     ELSE IF f = "creatorId" THEN "u1"
     ELSE IF f = "name" THEN "a"
     ELSE UNDEF]

ConcurrentInit ==
  /\ PgIdle
  /\ tags = ("t1" :> StoredTag("t1", "o1")) @@ ("t2" :> StoredTag("t2", "o2"))
  /\ pc = [r \in AllSlots |-> "idle"]
  /\ req = [r \in AllSlots |-> NoRequest]
  /\ trace = [r \in AllSlots |-> <<>>]
  /\ local = [r \in AllSlots |-> <<>>]
  /\ before = [r \in AllSlots |-> <<>>]
  /\ served = 0
  /\ OrgIdle
  /\ PayIdle
  /\ ChatIdle

ConcurrentNext ==
  \E r \in AllSlots :
    \/ deleteTag(r) /\ UNCHANGED <<pgvars, orgvars, payvars, chatvars>>
    \/ deleteTag_getTagById(r) /\ UNCHANGED <<pgvars, orgvars, payvars, chatvars>>
    \/ deleteTag_deleteTagById(r) /\ UNCHANGED <<pgvars, orgvars, payvars, chatvars>>

SpecConcurrent == ConcurrentInit /\ [][ConcurrentNext]_vars

OrgInit == PgIdle /\ TagIdle /\ OrgIdle /\ PayIdle /\ ChatIdle

SpecOrganization == OrgInit /\ [][OrgNext]_vars

PayInit == PgIdle /\ TagIdle /\ OrgIdle /\ PayShown /\ ChatIdle

SpecPayment == PayInit /\ [][PayNext]_vars

\* a pending promise of confirmPayment is eventually settled
SpecPaymentFair == SpecPayment /\ WF_vars(Settles)

ChatInit == PgIdle /\ TagIdle /\ OrgIdle /\ PayIdle /\ ChatShown

SpecChat == ChatInit /\ [][ChatNext]_vars

(***************************************************************************)
(* Properties of the filter and pagination extractor (SpecPagination).     *)
(***************************************************************************)
Extracted == pgpc \in {"extracted", "counted"}
QueryKeys == IF query.t = "object" THEN DOMAIN query.obj ELSE {}

\* C4: the returned skip is (page - 1) * pageSize of the returned page and
\* pageSize (NaN when either is NaN); page 1 with pageSize 1000 gives skip 0
\* and page 3 with pageSize 10 gives skip 20.
C4_SkipIsPageMinusOneTimesPageSize ==
  Extracted =>
    /\ IF result.page.k = "num" /\ result.pageSize.k = "num"
         THEN /\ result.skip.k = "num"
              /\ result.skip.v = (result.page.v - 1) * result.pageSize.v
         ELSE result.skip.k = "nan"
    /\ (result.page = Num(1) /\ result.pageSize = Num(1000))
         => result.skip.v = 0
    /\ (result.page = Num(3) /\ result.pageSize = Num(10))
         => result.skip.v = 20

C4_Witness ==
  /\ Extracted
  /\ result.page = Num(3)
  /\ result.pageSize = Num(10)
  /\ result.skip = Num(20)

\* C5: a query without page and pageSize, or a query that is no object,
\* gives page 1, pageSize 1000 and skip 0; when only one of the two is
\* supplied the other keeps its default.
C5_Defaults ==
  Extracted =>
    /\ ("page" \notin QueryKeys /\ "pageSize" \notin QueryKeys)
         => /\ result.page = Num(1)
            /\ result.pageSize = Num(1000)
            /\ result.skip = Num(0)
    /\ "page" \notin QueryKeys => result.page = Num(1)
    /\ "pageSize" \notin QueryKeys => result.pageSize = Num(1000)

C5_Witness ==
  /\ Extracted
  /\ "page" \in QueryKeys
  /\ "pageSize" \notin QueryKeys
  /\ result.page = Num(3)
  /\ result.pageSize = Num(1000)

\* C6: filters holds exactly the key-value pairs of the query other than page
\* and pageSize, with their values; it is empty when there is no other key.
C6_FiltersAreTheOtherPairs ==
  Extracted =>
    /\ DOMAIN result.filters = QueryKeys \ {"page", "pageSize"}
    /\ \A key \in DOMAIN result.filters : result.filters[key] = query.obj[key]

C6_Witness ==
  /\ Extracted
  /\ {"page", "pageSize", "name"} \subseteq QueryKeys
  /\ DOMAIN result.filters = {"name", "ids"}

\* C7: for pageSize >= 1, getNumberOfPages(totalItems) is the least integer n
\* with n * pageSize >= totalItems.
C7_NumberOfPagesIsCeiling ==
  (pgpc = "counted" /\ result.pageSize.k = "num" /\ result.pageSize.v >= 1) =>
    /\ numberOfPages.k = "num"
    /\ numberOfPages.v * result.pageSize.v >= totalItems
    /\ (numberOfPages.v - 1) * result.pageSize.v < totalItems
    /\ totalItems = 0 => numberOfPages.v = 0

C7_Witness ==
  /\ pgpc = "counted"
  /\ result.pageSize = Num(3)
  /\ totalItems = 4
  /\ numberOfPages = Num(2)

\* C17: the page, pageSize, skip and filters returned are those determined
\* by the fields of req.body.
C17_ExtractedFromTheBody ==
  Extracted => result = getFiltersAndPaginationFromBody(reqBody)

(***************************************************************************)
(* Properties of the tag controller (Spec).                                *)
(***************************************************************************)
Writers == {"addTag", "updateTag", "deleteTag"}
MutatingCalls == {"createTag", "updateTagById", "deleteTagById"}
MissingFieldCodes ==
  {"USER_NOT_DEFINED", "ORGANIZATION_NOT_DEFINED", "PROJECT_NOT_DEFINED",
   "PROJECT_DATA_NOT_FOUND", "TAG_ID_NOT_FOUND"}

Indices(r) == 1..Len(trace[r])
Calls(r, names) ==
  {i \in Indices(r) : trace[r][i].ev = "call" /\ trace[r][i].name \in names}
Denials(r) == {i \in Indices(r) : trace[r][i].ev = "perm" /\ ~trace[r][i].ok}
Grants(r) == {i \in Indices(r) : trace[r][i].ev = "perm" /\ trace[r][i].ok}
LastEvent(r) == trace[r][Len(trace[r])]

\* C1: in addTag, updateTag and deleteTag a permission check that returns
\* false is followed by the response PERMISSION_DENIED and by nothing else;
\* the handler calls no createTag, updateTagById or deleteTagById and the
\* stored tags are those of the arrival of the request.
C1_DenialMutatesNothing ==
  \A r \in Slots :
    \A i \in Denials(r) :
      req[r].kind \in Writers =>
        /\ Len(trace[r]) = i + 1
        /\ trace[r][i + 1] = Generic("PERMISSION_DENIED")
        /\ Calls(r, MutatingCalls) = {}
        /\ pc[r] = "done"
        /\ tags = before[r]

C1_Witness ==
  \E r \in Slots :
    /\ req[r].kind = "deleteTag"
    /\ Denials(r) # {}
    /\ LastEvent(r) = Generic("PERMISSION_DENIED")
    /\ req[r].tagId \in DOMAIN tags

\* the tags getTagById returned to deleteTag that are not of the caller's
\* organization
ForeignTags(r) ==
  {trace[r][i].target[1] : i \in
     {j \in Indices(r) :
        /\ req[r].kind = "deleteTag"
        /\ trace[r][j].ev = "return"
        /\ trace[r][j].name = "getTagById"
        /\ trace[r][j].target[1].organizationId # req[r].organization}}

\* C2 as stated: deleteTag on a tag of another organization responds
\* TAG_NOT_IN_ORGANIZATION and never calls deleteTagById.
C2_ForeignTagAnswersNotInOrganization ==
  \A r \in Slots :
    (ForeignTags(r) # {} /\ pc[r] = "done") =>
      /\ LastEvent(r) = Generic("TAG_NOT_IN_ORGANIZATION")
      /\ Calls(r, {"deleteTagById"}) = {}

\* C2 amended: when getTagById returns to deleteTag a tag of another
\* organization, deleteTagById is never called and the tag stays stored; the
\* response is TAG_NOT_IN_ORGANIZATION when the permission check returned
\* true and PERMISSION_DENIED when it returned false.
C2_ForeignTagIsNeverDeleted ==
  \A r \in Slots :
    \A tag \in ForeignTags(r) :
      /\ pc[r] = "done"
      /\ Calls(r, {"deleteTagById"}) = {}
      /\ req[r].tagId \in DOMAIN tags
      /\ tags[req[r].tagId] = tag
      /\ Grants(r) # {} => LastEvent(r) = Generic("TAG_NOT_IN_ORGANIZATION")
      /\ Denials(r) # {} => LastEvent(r) = Generic("PERMISSION_DENIED")

C2_Witness ==
  \E r \in Slots :
    /\ ForeignTags(r) # {}
    /\ Grants(r) # {}
    /\ LastEvent(r) = Generic("TAG_NOT_IN_ORGANIZATION")
    /\ req[r].tagId \in DOMAIN tags

\* C3: no tag is created, updated or deleted by a request whose session
\* organization differs from the organizationId of the tag.
C3_WritesStayInTheOrganization ==
  \A r \in Slots :
    \A i \in Indices(r) :
      (/\ trace[r][i].ev = "return"
       /\ trace[r][i].name \in MutatingCalls
       /\ trace[r][i].target # <<>>)
        => trace[r][i].target[1].organizationId = req[r].organization

\* C8: once the response to a missing field has been sent, the handler
\* evaluates no permission check and makes no tagService call.
C8_MissingFieldReturnsEarly ==
  \A r \in Slots :
    \A i \in Indices(r) :
      (trace[r][i].ev = "res" /\ trace[r][i].code \in MissingFieldCodes) =>
        \A j \in Indices(r) : j > i => trace[r][j].ev \notin {"perm", "call"}

\* C9: addTag with user, organization and project defined and no body
\* evaluates hasPermission(roles, 'tag:admin') on the tag made of the ids of
\* the session.
C9_NoBodyReachesPermissionCheck ==
  \A r \in Slots :
    (/\ req[r].kind = "addTag"
     /\ req[r].user # UNDEF
     /\ req[r].organization # UNDEF
     /\ req[r].project # UNDEF
     /\ ~req[r].body.present) =>
      \E i \in Indices(r) :
        /\ trace[r][i].ev = "perm"
        /\ trace[r][i].name = "tag:admin"
        /\ Len(trace[r][i].target) = 1
        /\ trace[r][i].target[1] =
             [f \in TagFields |->
                IF f = "creatorId" THEN req[r].user
                ELSE IF f = "organizationId" THEN req[r].organization
                ELSE IF f = "projectId" THEN req[r].project
                ELSE UNDEF]

C9_Witness ==
  \E r \in Slots :
    /\ req[r].kind = "addTag"
    /\ ~req[r].body.present
    /\ trace[r][1] = Generic("PROJECT_DATA_NOT_FOUND")
    /\ Len(trace[r]) >= 2
    /\ trace[r][2].ev = "perm"

\* C10: an error thrown by a tagService call is answered through
\* handleAppErrorResponse with that error; the handler then ends, and it
\* sends no success response.
C10_ServiceErrorsAreCaught ==
  \A r \in Slots :
    \A i \in Indices(r) :
      trace[r][i].ev = "throw" =>
        /\ Len(trace[r]) = i + 1
        /\ trace[r][i + 1] = App(trace[r][i].code)
        /\ pc[r] = "done"
        /\ \A j \in Indices(r) : trace[r][j].name # "json"

C10_Witness ==
  \E r \in Slots :
    /\ Len(trace[r]) >= 2
    /\ trace[r][Len(trace[r]) - 1] = Throw("updateTagById", "DATABASE_ERROR")
    /\ LastEvent(r) = App("DATABASE_ERROR")

Responses(r) == {i \in Indices(r) : trace[r][i].ev = "res"}
Successes(r) == {i \in Indices(r) : trace[r][i].name = "json"}

\* C11: a successful getTags response carries the page and pageSize of the
\* request, the mapping of the tags found for its filters, skip and pageSize,
\* the count of the tags matching the same filters, and as totalPages the
\* ceiling of totalItems / pageSize.
C11_PaginatedEnvelope ==
  \A r \in Slots :
    (req[r].kind = "getTags" /\ Successes(r) # {}) =>
      LET e == LastEvent(r)
          fp == getFiltersAndPaginationFromBody(req[r].query)
          matching == {id \in DOMAIN tags : Matches(tags[id], fp.filters)}
      IN /\ e.name = "json"
         /\ {"page", "pageSize", "totalPages", "totalItems"} \subseteq DOMAIN e
         /\ e.page = fp.page
         /\ e.pageSize = fp.pageSize
         /\ e.target =
              mapTagsToAPI(findTags(fp.filters, fp.skip.v, fp.pageSize.v))
         /\ e.totalItems = Cardinality(matching)
         /\ e.totalPages.k = "num"
         /\ e.totalPages.v * e.pageSize.v >= e.totalItems
         /\ (e.totalPages.v - 1) * e.pageSize.v < e.totalItems

C11_Witness ==
  \E r \in Slots :
    /\ req[r].kind = "getTags"
    /\ Successes(r) # {}
    /\ LastEvent(r).page = Num(2)
    /\ LastEvent(r).pageSize = Num(1)
    /\ LastEvent(r).totalItems = 2
    /\ LastEvent(r).totalPages = Num(2)
    /\ Len(LastEvent(r).target) = 1

\* C12: getTags answers with tag data only after findTags returned and the
\* permission check 'tag:read' returned true for exactly the tags found, and
\* the data are their mapping; a denial is answered PERMISSION_DENIED, with
\* no tag data and nothing after it.
C12_ReadIsGatedByPermission ==
  \A r \in Slots :
    req[r].kind = "getTags" =>
      /\ \A i \in Successes(r) :
           \E j \in Indices(r) :
             /\ 1 < j /\ j < i
             /\ trace[r][j - 1].ev = "return"
             /\ trace[r][j - 1].name = "findTags"
             /\ trace[r][j] =
                  Perm("tag:read", trace[r][j - 1].target, TRUE)
             /\ trace[r][i].target = mapTagsToAPI(trace[r][j - 1].target)
      /\ \A i \in Denials(r) :
           /\ Len(trace[r]) = i + 1
           /\ trace[r][i + 1] = Generic("PERMISSION_DENIED")
           /\ Successes(r) = {}
           /\ \A k \in Responses(r) : trace[r][k].target = <<>>

C12_Witness ==
  \E r \in Slots :
    /\ req[r].kind = "getTags"
    /\ Successes(r) # {}
    /\ LastEvent(r).target # <<>>
    /\ Grants(r) # {}

\* C18: every invocation of a handler sends exactly one response, and after
\* an error response the handler makes no tag creation, update or deletion.
C18_ExactlyOneResponse ==
  \A r \in Slots :
    pc[r] = "done" =>
      /\ Cardinality(Responses(r)) = 1
      /\ \A i \in Responses(r) :
           ~trace[r][i].ok =>
             \A j \in Calls(r, MutatingCalls) : j < i

(***************************************************************************)
(* Properties of concurrent deleteTag requests (SpecConcurrent).           *)
(***************************************************************************)
\* C13: the step in which deleteTag sends its success response is the step
\* in which deleteTagById removed the requested tag from the store; the data
\* of the response are the mapping of the document deleteTagById returned,
\* which is the tag that was stored under the requested id.
C13_SuccessAnswersTheDeletedTag ==
  [][\A r \in AllSlots :
       (/\ req'[r].kind = "deleteTag"
        /\ trace'[r] # trace[r]
        /\ Len(trace'[r]) > 1
        /\ trace'[r][Len(trace'[r])].name = "json") =>
         LET tagId == req[r].tagId
             n == Len(trace'[r])
         IN /\ tagId \in DOMAIN tags
            /\ tagId \notin DOMAIN tags'
            /\ tags[tagId].id = tagId
            /\ trace'[r][n - 1] = Return("deleteTagById", <<tags[tagId]>>)
            /\ trace'[r][n] =
                 Json("Tag deleted successfully", <<mapTagToAPI(tags[tagId])>>)
    ]_vars

C13_Witness ==
  \E r \in AllSlots, o \in AllSlots :
    /\ r # o
    /\ req[r].kind = "deleteTag"
    /\ req[o].kind = "deleteTag"
    /\ req[r].tagId = req[o].tagId
    /\ Successes(r) # {}
    /\ req[r].tagId \notin DOMAIN tags
    /\ pc[o] = "done"
    /\ LastEvent(o) = Generic("TAG_NOT_FOUND")

\* two finished deleteTag requests for the same tag, stored when each of them
\* arrived, both of the organization of the tag and neither denied
SameTagDeletes ==
  /\ \A r \in AllSlots :
       /\ pc[r] = "done"
       /\ req[r].kind = "deleteTag"
       /\ req[r].tagId \in DOMAIN before[r]
       /\ before[r][req[r].tagId].organizationId = req[r].organization
       /\ req[r].user # UNDEF
       /\ Denials(r) = {}
  /\ req[1].tagId = req[2].tagId

DatabaseFailures(r) ==
  {i \in Indices(r) :
     trace[r][i].ev = "throw" /\ trace[r][i].code \in DatabaseErrors}
Removals(r) ==
  {i \in Indices(r) :
     /\ trace[r][i].ev = "return"
     /\ trace[r][i].name = "deleteTagById"
     /\ trace[r][i].target # <<>>}

\* C20: of two concurrent deleteTag requests for the same stored tag, from
\* permitted callers of its organization, at most one answers 'Tag deleted
\* successfully' and the tag is removed at most once; a request without
\* success answers with an error.  When no database call fails, exactly one
\* succeeds, the other answers TAG_NOT_FOUND (from deleteTagById returning
\* nothing or from getTagById throwing) and the tag is gone.
C20_OneDeleteSucceeds ==
  SameTagDeletes =>
    LET winners == {r \in AllSlots : Successes(r) # {}}
        removed == {r \in AllSlots : Removals(r) # {}}
    IN /\ Cardinality(winners) <= 1
       /\ removed = winners
       /\ \A r \in AllSlots : Cardinality(Removals(r)) <= 1
       /\ (req[1].tagId \in DOMAIN tags) <=> (winners = {})
       /\ \A r \in AllSlots \ winners :
            LastEvent(r).ev = "res" /\ ~LastEvent(r).ok
       /\ (\A r \in AllSlots : DatabaseFailures(r) = {}) =>
            /\ Cardinality(winners) = 1
            /\ \A r \in AllSlots \ winners :
                 LastEvent(r) \in
                   {Generic("TAG_NOT_FOUND"), App("TAG_NOT_FOUND")}

C20_Witness ==
  /\ SameTagDeletes
  /\ \E r \in AllSlots :
       /\ LastEvent(r).code = "Tag deleted successfully"
       /\ \E o \in AllSlots \ {r} : LastEvent(o) = Generic("TAG_NOT_FOUND")


(***************************************************************************)
(* The organization service.                                               *)
(***************************************************************************)
Finished(c) == opc[c] = "done"
ThrewCode(c, code) == Finished(c) /\ ores[c] = Thrown(code)
Writes(c) ==
  {i \in 1..Len(olog[c]) : olog[c][i].op # "findById"}

\* the fields of the argument that validation is to refuse
InvalidName(data) == "name" \notin DOMAIN data \/ data.name \notin ValidNames
InvalidKeys(data) ==
  {f \in DOMAIN data :
     \/ f = "name" /\ data[f] \notin ValidNames
     \/ f \in {"membersIds", "adminsIds"} /\ data[f] = {}}

\* C14: createOrganization validates the name and updateOrganizationById
\* validates exactly the keys present in the update, before any database
\* operation: a call whose validated fields are in error throws
\* ORGANIZATION_INVALID_FIELDS without having made a database operation,
\* and no other call throws that error
C14_ValidationPrecedesTheWrite ==
  \A c \in OrgCalls :
    /\ (Finished(c) /\ oreq[c].op = "createOrganization") =>
         (InvalidName(oreq[c].data)
            <=> ores[c] = Thrown("ORGANIZATION_INVALID_FIELDS"))
    /\ (Finished(c) /\ oreq[c].op = "updateOrganizationById") =>
         (InvalidKeys(oreq[c].data) # {}
            <=> ores[c] = Thrown("ORGANIZATION_INVALID_FIELDS"))
    /\ ThrewCode(c, "ORGANIZATION_INVALID_FIELDS") =>
         /\ olog[c] = <<>>
         /\ oreq[c].op \in {"createOrganization", "updateOrganizationById"}
    /\ (oreq[c].op = "createOrganization" /\ InvalidName(oreq[c].data)) =>
         opc[c] \in {"idle", "done"}
    /\ (oreq[c].op = "updateOrganizationById"
          /\ InvalidKeys(oreq[c].data) # {}) =>
         opc[c] \in {"idle", "done"}

C14_Witness ==
  /\ ThrewCode(1, "ORGANIZATION_INVALID_FIELDS")
  /\ oreq[1].op = "createOrganization"
  /\ ThrewCode(2, "ORGANIZATION_INVALID_FIELDS")
  /\ oreq[2].op = "updateOrganizationById"
  /\ "name" \notin DOMAIN oreq[2].data
  /\ oreq[2].id \in DOMAIN orgs
  /\ orgs[oreq[2].id] = SeedOrganization


\* a step of call c that ends it, the id of the call having matched no
\* stored organization before the step nor in a database operation of the call
ByIdOperations ==
  {"getOrganizationById", "deleteOrganizationById", "updateOrganizationById",
   "updatePlan"}
EndsOnMissingId(c) ==
  /\ <<opc[c], oreq[c], ores[c], olog[c]>>
       # <<opc'[c], oreq'[c], ores'[c], olog'[c]>>
  /\ opc'[c] = "done"
  /\ oreq'[c].op \in ByIdOperations
  /\ oreq'[c].id \notin DOMAIN orgs
  /\ olog'[c] # <<>> => olog'[c][1].was = <<>>

\* C15 as stated: on an id that matches no stored organization
\* getOrganizationById and deleteOrganizationById throw
\* ORGANIZATION_NOT_FOUND, updateOrganizationById and updatePlan throw
\* ORGANIZATION_UPDATE_FAILED, and the store is unchanged
C15_MissingIdThrowsTheNamedError ==
  [][\A c \in OrgCalls :
       EndsOnMissingId(c) =>
         /\ ores'[c] =
              Thrown(IF oreq'[c].op \in {"getOrganizationById",
                                         "deleteOrganizationById"}
                       THEN "ORGANIZATION_NOT_FOUND"
                       ELSE "ORGANIZATION_UPDATE_FAILED")
         /\ orgs' = orgs]_vars

\* C15, amended: as stated, except that updateOrganizationById throws
\* ORGANIZATION_INVALID_FIELDS when a key of its update is in error, the
\* validation coming before the database is asked for the id; no call on
\* such an id changes the store or creates a document
C15_MissingIdThrows ==
  [][\A c \in OrgCalls :
       EndsOnMissingId(c) =>
         /\ ores'[c] =
              Thrown(IF oreq'[c].op \in {"getOrganizationById",
                                         "deleteOrganizationById"}
                       THEN "ORGANIZATION_NOT_FOUND"
                     ELSE IF /\ oreq'[c].op = "updateOrganizationById"
                             /\ InvalidKeys(oreq'[c].data) # {}
                       THEN "ORGANIZATION_INVALID_FIELDS"
                       ELSE "ORGANIZATION_UPDATE_FAILED")
         /\ orgs' = orgs
         /\ \A i \in 1..Len(olog'[c]) : olog'[c][i].now = <<>>]_vars

C15_Witness ==
  /\ ThrewCode(1, "ORGANIZATION_UPDATE_FAILED")
  /\ oreq[1].op = "updateOrganizationById"
  /\ oreq[1].id = GhostId
  /\ ThrewCode(2, "ORGANIZATION_NOT_FOUND")
  /\ oreq[2].op = "deleteOrganizationById"
  /\ oreq[2].id = GhostId
  /\ DOMAIN orgs = {"o1"}


\* call c makes a database operation in this step
Operates(c) == Len(olog'[c]) = Len(olog[c]) + 1
LastOperation(c) == olog'[c][Len(olog'[c])]

ConcurrentPlanUpdates ==
  /\ \A c \in OrgCalls :
       /\ Finished(c)
       /\ oreq[c].op = "updatePlan"
       /\ ores[c].status = "returned"
  /\ oreq[1].organization = oreq[2].organization
  /\ olog[1][1].was = <<oreq[1].organization>>
       \/ olog[2][1].was = <<oreq[2].organization>>
  /\ oreq[1].plan # <<>>
  /\ oreq[2].plan # <<>>
  /\ DOMAIN oreq[1].plan \cap DOMAIN oreq[2].plan = {}
  /\ oreq[1].id \in DOMAIN orgs

\* C19 as stated: after two such calls the stored plan has the fields of
\* both partial plans
C19_NoPlanUpdateIsLost ==
  ConcurrentPlanUpdates =>
    \A c \in OrgCalls : \A f \in DOMAIN oreq[c].plan :
      /\ f \in DOMAIN orgs[oreq[c].id].plan
      /\ orgs[oreq[c].id].plan[f] = oreq[c].plan[f]

\* what updatePlan does: after two such calls the stored plan is the plan
\* both were given, overridden by the partial plan of the call that wrote last
\* alone; the fields of the other call have the values they had before either
\* wrote
LastPlanUpdateWins ==
  ConcurrentPlanUpdates =>
    LET stored == orgs[oreq[1].id].plan
        given == oreq[1].organization.plan
        last == oreq[lastWriter].plan
    IN /\ lastWriter \in OrgCalls
       /\ DOMAIN stored = DOMAIN given \cup DOMAIN last
       /\ \A f \in DOMAIN last : stored[f] = last[f]
       /\ \A f \in DOMAIN given \ DOMAIN last : stored[f] = given[f]

LostPlanUpdate ==
  /\ ConcurrentPlanUpdates
  /\ oreq[1].organization = SeedOrganization
  /\ oreq[1].plan = [type |-> "PREMIUM"]
  /\ oreq[2].plan = [status |-> "canceled"]
  /\ lastWriter = 2
  /\ orgs["o1"].plan = [type |-> "FREE", status |-> "canceled"]


(***************************************************************************)
(* Pagination: windows, ranges and digit strings.                          *)
(***************************************************************************)
\* the window of indices of a page: [skip, skip + pageSize)
Window(page) ==
  LET skip == Skip(Num(page), result.pageSize)
  IN {i \in 0..(totalItems + result.pageSize.v) :
        skip.v <= i /\ i < skip.v + result.pageSize.v}

\* C21: for pageSize >= 1 and totalItems >= 0 the windows [skip, skip +
\* pageSize) of the pages 1 .. getNumberOfPages(totalItems) are pairwise
\* disjoint and cover every index 0 .. totalItems - 1, and the window of the
\* page after the last starts at or beyond totalItems
C21_WindowsPartitionTheItems ==
  (pgpc = "counted" /\ result.pageSize.k = "num" /\ result.pageSize.v >= 1) =>
    LET pages == 1..numberOfPages.v
    IN /\ numberOfPages.k = "num"
       /\ \A p \in pages : \A q \in pages :
            p # q => Window(p) \cap Window(q) = {}
       /\ \A i \in 0..(totalItems - 1) : \E p \in pages : i \in Window(p)
       /\ \A p \in pages : Skip(Num(p), result.pageSize).v < totalItems
       /\ Skip(Num(numberOfPages.v + 1), result.pageSize).k = "num"
       /\ Skip(Num(numberOfPages.v + 1), result.pageSize).v >= totalItems

C21_Witness ==
  /\ pgpc = "counted"
  /\ result.page = Num(2)
  /\ result.pageSize = Num(3)
  /\ result.skip = Num(3)
  /\ totalItems = 4
  /\ numberOfPages = Num(2)
  /\ Window(1) = {0, 1, 2}
  /\ Window(2) = {3, 4, 5}

\* C22: for every query the returned page and pageSize are integers >= 1
\* and skip is an integer >= 0, and getNumberOfPages does not divide by zero
C22_PageAndPageSizeArePositive ==
  /\ Extracted =>
       /\ result.page.k = "num" /\ result.page.v >= 1
       /\ result.pageSize.k = "num" /\ result.pageSize.v >= 1
       /\ result.skip.k = "num" /\ result.skip.v >= 0 /\ ~result.skip.nz
  /\ pgpc = "counted" => numberOfPages.k = "num"

\* the value of a string of decimal digits
RECURSIVE Decimal(_)
Decimal(s) ==
  IF s = <<>> THEN 0
  ELSE Decimal(SubSeq(s, 1, Len(s) - 1)) * 10 + DigitValue[s[Len(s)]]
IsDigitString(value) ==
  /\ value.t = "string"
  /\ value.s # <<>>
  /\ \A i \in 1..Len(value.s) : value.s[i] \in Digits

\* C25: page and pageSize given as strings of decimal digits yield the page,
\* pageSize and skip that the same values yield when given as numbers:
\* page = '3' with pageSize = '10' gives page 3, pageSize 10 and skip 20
C25_DigitStringsAreNumbers ==
  (/\ Extracted
   /\ {"page", "pageSize"} \subseteq QueryKeys
   /\ IsDigitString(query.obj.page)
   /\ IsDigitString(query.obj.pageSize)) =>
    LET page == Decimal(query.obj.page.s)
        pageSize == Decimal(query.obj.pageSize.s)
        asNumbers ==
          getFiltersAndPaginationFromBody(
            [query EXCEPT !.obj.page = JsNumber(page),
                          !.obj.pageSize = JsNumber(pageSize)])
    IN /\ result.page = Num(page)
       /\ result.pageSize = Num(pageSize)
       /\ result.page = asNumbers.page
       /\ result.pageSize = asNumbers.pageSize
       /\ result.skip = asNumbers.skip
       /\ (page = 3 /\ pageSize = 10) => result.skip = Num(20)

C25_Witness ==
  /\ Extracted
  /\ query.t = "object"
  /\ Get(query.obj, "page") = JsString(<<"3">>)
  /\ Get(query.obj, "pageSize") = JsString(<<"1", "0">>)
  /\ result.page = Num(3)
  /\ result.pageSize = Num(10)
  /\ result.skip = Num(20)


(***************************************************************************)
(* The frame of updateTag.                                                 *)
(***************************************************************************)
UpdatableFields == {"name", "key", "description", "instructions"}

\* C23: when an updateTag request has ended, the stored tags are those stored
\* when it arrived, the tag of tagId differing at most in its name, key,
\* description and instructions, whatever keys the request body carries
C23_UpdateTagFrame ==
  \A r \in Slots :
    (pc[r] = "done" /\ req[r].kind = "updateTag") =>
      /\ DOMAIN tags = DOMAIN before[r]
      /\ \A id \in DOMAIN tags :
           \A f \in TagFields :
             (id # req[r].tagId \/ f \notin UpdatableFields)
               => tags[id][f] = before[r][id][f]

C23_Witness ==
  \E r \in Slots :
    /\ pc[r] = "done"
    /\ req[r].kind = "updateTag"
    /\ req[r].body = Body([key |-> "a", projectId |-> "p2", creatorId |-> "u2"])
    /\ LastEvent(r).name = "json"
    /\ req[r].tagId \in DOMAIN tags
    /\ tags[req[r].tagId].key = "a"
    /\ before[r][req[r].tagId].key # "a"
    /\ tags[req[r].tagId].projectId = "p1"
    /\ tags[req[r].tagId].creatorId = "u1"


\* C24: every organization created by createOrganization(organization, userId)
\* has creatorId = userId and has userId among its membersIds and its
\* adminsIds, whatever fields the creation data carries
C24_CreatorIsTheUser ==
  \A c \in OrgCalls :
    (Finished(c) /\ oreq[c].op = "createOrganization"
       /\ ores[c].status = "returned") =>
      LET created == ores[c].doc[1]
      IN /\ created.creatorId = oreq[c].userId
         /\ oreq[c].userId \in created.membersIds
         /\ oreq[c].userId \in created.adminsIds


(***************************************************************************)
(* The payment step.                                                       *)
(***************************************************************************)
\* the organization's plan is the requested plan, whatever the case of the
\* letters, and is active
PlanNames == {{"premium", "PREMIUM"}, {"free", "FREE"}}
PlanIsTheRequestedActivePlan ==
  /\ planData # NoPlan
  /\ planData.status = "active"
  /\ \E names \in PlanNames : {planData.type, requestedPlan} \subseteq names

CallsOf(name, log) == Cardinality({i \in 1..Len(log) : log[i] = name})
Invoked(name) == CallsOf(name, paylog') > CallsOf(name, paylog)
ResolvesWithoutError == payment = "pending" /\ payment' = "resolved"
ResolvesWithError == payment = "pending" /\ payment' = "error"
Submitted == submits' = submits + 1

\* C26: onSubmit invokes stripe.confirmPayment only when the plan is not
\* already the requested active plan, Stripe and Elements are loaded and the
\* PaymentElement is mounted; goNextStep is invoked only by a submit with the
\* plan already valid or when confirmPayment resolves without an error;
\* isPaymentSuccessful is set only in the latter case; a resolved error
\* leaves the step and its state as they are
C26_PaymentIsConfirmedBeforeTheNextStep ==
  [][/\ Invoked("confirmPayment") =>
          /\ Submitted
          /\ ~PlanIsTheRequestedActivePlan
          /\ stripe /\ elements /\ mounted
          /\ CallsOf("confirmPayment", paylog')
               = CallsOf("confirmPayment", paylog) + 1
     /\ (Invoked("goNextStep") \/ route' # route) =>
          /\ \/ Submitted /\ PlanIsTheRequestedActivePlan
             \/ ResolvesWithoutError
          /\ route' = "next"
     /\ isPaymentSuccessful' # isPaymentSuccessful =>
          /\ ResolvesWithoutError
          /\ isPaymentSuccessful'
     /\ ResolvesWithError =>
          /\ route' = route
          /\ isPaymentSuccessful' = isPaymentSuccessful
          /\ ~Invoked("goNextStep")
          /\ ~Invoked("setState")]_vars

C26_Witness ==
  /\ paylog = <<"confirmPayment", "console.error", "confirmPayment",
                "setState", "goNextStep">>
  /\ planData = [type |-> "premium", status |-> "canceled"]
  /\ requestedPlan = "PREMIUM"
  /\ isPaymentSuccessful
  /\ route = "next"

\* C27: after every submit that starts a payment confirmation isLoading
\* returns to false, whatever the outcome of confirmPayment
C27_LoadingEnds == isLoading ~> ~isLoading


(***************************************************************************)
(* The chat interface.                                                     *)
(***************************************************************************)
Content == {i \in 1..Len(chatMessage) : chatMessage[i] \notin WhiteSpace}
HasContent == Content # {}
Least(S) == CHOOSE i \in S : \A j \in S : i <= j
Greatest(S) == CHOOSE i \in S : \A j \in S : j <= i
\* the text from its first to its last character that is no white space
TrimmedText == SubSeq(chatMessage, Least(Content), Greatest(Content))
Sending == chatEvent' \in {"enter", "click"}

\* C28: Send is enabled exactly when the message has a character that is no
\* white space; a click on Send or Enter without Shift, with such a message,
\* appends exactly one message with the trimmed text at the end of the list
\* and empties the input; with a blank message it changes neither the list
\* nor the input
C28_SendAppendsTheTrimmedMessage ==
  [][/\ ~SendDisabled <=> HasContent
     /\ (chatEvent' = "click" /\ chatEvent' # chatEvent) => HasContent
     /\ Sending =>
          IF HasContent
            THEN /\ messages' =
                      messages \o <<[text |-> TrimmedText, sender |-> "you"]>>
                 /\ chatMessage' = <<>>
            ELSE /\ messages' = messages
                 /\ chatMessage' = chatMessage]_vars

C28_Witness ==
  /\ Len(messages) = Len(InitialMessages) + 1
  /\ messages[Len(messages)] = [text |-> <<"a">>, sender |-> "you"]
  /\ SubSeq(messages, 1, Len(InitialMessages)) = InitialMessages
  /\ chatMessage = <<" ", "\n">>
  /\ chatEvent = "enter"
  /\ SendDisabled

====
